---- MODULE Spec2Model ----
(***************************************************************************)
(* money-manager: the recurring-charge detector                            *)
(* (src/analyzers/subscriptions.py) and the debt payoff simulator          *)
(* (src/analyzers/debt.py), as a state machine over one detector instance  *)
(* and one analyzer instance.  Each public method is one action; its       *)
(* return value (or the exception it raises) is recorded in ret.           *)
(*                                                                         *)
(* Numbers.  Money in the detector is in integer cents, dates are integer  *)
(* day numbers (the loader parses date-only strings, so every datetime is  *)
(* a midnight), means and ratios are exact rationals [num, den] in lowest  *)
(* terms.  The sample standard deviation, the only irrational quantity of  *)
(* the detector, is carried in hundredths of a day (rounded down); the     *)
(* gate that compares it with half the mean is decided exactly on the      *)
(* squares.  A tolerance is given in percent (5 is 0.05).                  *)
(***************************************************************************)
EXTENDS Integers, Sequences, FiniteSets

VARIABLES transactions, accounts, ret, built, kept

vars == <<transactions, accounts, ret, built, kept>>

(***************************************************************************)
(* Bounds of the model and constants of the program.                       *)
(***************************************************************************)
MaxTxns == 3

MaxOccurrences == 11

MaxAccounts == 2

\* the merchants of one ledger of several merchants
MaxMerchants == 2
\* the longest ledger of the runs in which the caller keeps a result
MaxKeptTxns == 3

DefaultMinOccurrences == 3

DefaultAmountTolerance == 5

(***************************************************************************)
(* Arithmetic helpers.                                                     *)
(***************************************************************************)
Abs(x) == IF x < 0 THEN -x ELSE x

Min(a, b) == IF a <= b THEN a ELSE b

Max(a, b) == IF a >= b THEN a ELSE b

RECURSIVE GCD(_, _)
GCD(a, b) == IF b = 0 THEN a ELSE GCD(b, a % b)

\* the rational n/d (d > 0) in lowest terms
Rat(n, d) ==
    LET g == GCD(Abs(n), d)
    IN  IF g = 0 THEN [num |-> 0, den |-> 1]
        ELSE [num |-> n \div g, den |-> d \div g]

RatLE(p, q) == p.num * q.den <= q.num * p.den

RatLT(p, q) == p.num * q.den < q.num * p.den

RatAdd(p, q) == Rat(p.num * q.den + q.num * p.den, p.den * q.den)

RatMul(p, q) == Rat(p.num * q.num, p.den * q.den)

RECURSIVE IsqrtIn(_, _, _)
IsqrtIn(v, lo, hi) ==
    IF lo >= hi THEN lo
    ELSE LET mid == (lo + hi + 1) \div 2
         IN  IF mid * mid <= v THEN IsqrtIn(v, mid, hi)
             ELSE IsqrtIn(v, lo, mid - 1)

\* floor of the square root
Isqrt(v) == IsqrtIn(v, 0, Min(v, 46340))

RECURSIVE SumSeq(_)
SumSeq(s) == IF s = <<>> THEN 0 ELSE Head(s) + SumSeq(Tail(s))

RECURSIVE SumSquares(_)
SumSquares(s) == IF s = <<>> THEN 0 ELSE Head(s) * Head(s) + SumSquares(Tail(s))

RECURSIVE MaxSeq(_)
MaxSeq(s) == IF Len(s) = 1 THEN s[1] ELSE Max(Head(s), MaxSeq(Tail(s)))

RECURSIVE MinSeq(_)
MinSeq(s) == IF Len(s) = 1 THEN s[1] ELSE Min(Head(s), MinSeq(Tail(s)))

\* statistics.mean
Mean(s) == Rat(SumSeq(s), Len(s))

\* numerator of the sample variance: k * sum(x^2) - (sum x)^2, over k * (k - 1)
VarNum(s) == Len(s) * SumSquares(s) - SumSeq(s) * SumSeq(s)

\* statistics.stdev, in hundredths of a day (rounded down)
Stdev(s) == Isqrt((VarNum(s) * 10000) \div (Len(s) * (Len(s) - 1)))

(***************************************************************************)
(* models/transaction.py and SubscriptionDetector.__init__                 *)
(***************************************************************************)
Txn(d, m, a, c) == [date |-> d, merchant |-> m, amount |-> a, category |-> c]

is_expense(t) == t.amount > 0

\* self.transactions: the expense transactions with a positive amount
Construct(raw) == SelectSeq(raw, LAMBDA t : is_expense(t) /\ t.amount > 0)

(***************************************************************************)
(* SubscriptionDetector.find_recurring                                     *)
(***************************************************************************)
RECURSIVE MerchantOrder(_)
\* the keys of by_merchant, in the order the dict received them
MerchantOrder(txns) ==
    IF txns = <<>> THEN <<>>
    ELSE LET rest == MerchantOrder(SubSeq(txns, 1, Len(txns) - 1))
             m == txns[Len(txns)].merchant
         IN  IF \E i \in 1..Len(rest) : rest[i] = m THEN rest ELSE Append(rest, m)

GroupOf(txns, m) == SelectSeq(txns, LAMBDA t : t.merchant = m)

\* t put behind every element whose date is not later: sorted() is stable
InsertByDate(s, t) ==
    LET k == Cardinality({i \in 1..Len(s) : s[i].date <= t.date})
    IN  SubSeq(s, 1, k) \o <<t>> \o SubSeq(s, k + 1, Len(s))

RECURSIVE SortByDate(_)
SortByDate(txns) ==
    IF txns = <<>> THEN <<>>
    ELSE InsertByDate(SortByDate(SubSeq(txns, 1, Len(txns) - 1)), txns[Len(txns)])

\* faulty variant: every gap measured from the first charge
IntervalsFromFirst(s) == [i \in 1..(Len(s) - 1) |-> s[i + 1].date - s[1].date]

\* faulty variant: the gaps between distinct charge days only, a same-day
\* charge adding no gap
IntervalsBetweenDays(s) ==
    LET later == {i \in 1..(Len(s) - 1) : s[i + 1].date > s[i].date}
        nth(k) == CHOOSE i \in later : Cardinality({j \in later : j <= i}) = k
    IN  [k \in 1..Cardinality(later) |-> s[nth(k) + 1].date - s[nth(k)].date]

Intervals(s) == [i \in 1..(Len(s) - 1) |-> s[i + 1].date - s[i].date]

Amounts(s) == [i \in 1..Len(s) |-> s[i].amount]

StdInterval(intervals) == IF Len(intervals) > 1 THEN Stdev(intervals) ELSE 0

\* faulty variant: std_interval >= avg_interval * 0.50
IntervalsInconsistentOrEqual(intervals) ==
    LET k == Len(intervals)
        S == SumSeq(intervals)
    IN  IF k > 1 THEN 4 * k * VarNum(intervals) >= (k - 1) * S * S
        ELSE 0 >= S

\* faulty variant: the deviation taken only from three gaps on
\* (stdev(intervals) if len(intervals) > 2 else 0)
IntervalsInconsistentFromThree(intervals) ==
    LET k == Len(intervals)
        S == SumSeq(intervals)
    IN  IF k > 2 THEN 4 * k * VarNum(intervals) > (k - 1) * S * S
        ELSE 0 > S

\* std_interval > avg_interval * 0.50, decided on the squares:
\* VarNum / (k (k - 1)) > (S / (2 k))^2
IntervalsInconsistent(intervals) ==
    LET k == Len(intervals)
        S == SumSeq(intervals)
    IN  IF k > 1 THEN 4 * k * VarNum(intervals) > (k - 1) * S * S
        ELSE 0 > S

\* (max_amount - min_amount) / avg_amount
AmountVariance(amounts) ==
    Rat((MaxSeq(amounts) - MinSeq(amounts)) * Len(amounts), SumSeq(amounts))

\* faulty variant: amount_variance >= amount_tolerance
AmountsVaryOrEqual(amounts, amount_tolerance) ==
    LET v == AmountVariance(amounts)
    IN  v.num * 100 >= amount_tolerance * v.den

\* amount_variance > amount_tolerance, the tolerance in percent
AmountsVary(amounts, amount_tolerance) ==
    LET v == AmountVariance(amounts)
    IN  v.num * 100 > amount_tolerance * v.den

\* round(x) of f"{x:.0f}": to the nearest integer, a half to the even one
RoundHalfEven(x) ==
    LET q == x.num \div x.den
        r == x.num % x.den
    IN  IF 2 * r < x.den THEN q
        ELSE IF 2 * r > x.den THEN q + 1
        ELSE IF q % 2 = 0 THEN q ELSE q + 1

Between(lo, days, hi) == lo * days.den <= days.num /\ days.num <= hi * days.den

Label(name) == [label |-> name, N |-> 0]

\* faulty variant: the upper bounds excluded
_classify_interval_exclusive(days) ==
    IF Between(6, days, 8) /\ days.num /= 8 * days.den THEN Label("weekly")
    ELSE IF Between(13, days, 15) /\ days.num /= 15 * days.den THEN Label("bi-weekly")
    ELSE IF Between(27, days, 31) /\ days.num /= 31 * days.den THEN Label("monthly")
    ELSE IF Between(89, days, 92) /\ days.num /= 92 * days.den THEN Label("quarterly")
    ELSE IF Between(364, days, 366) /\ days.num /= 366 * days.den THEN Label("annual")
    ELSE [label |-> "every N days", N |-> RoundHalfEven(days)]

\* N is the number the generic label prints; a named label prints none
_classify_interval(days) ==
    IF Between(6, days, 8) THEN Label("weekly")
    ELSE IF Between(13, days, 15) THEN Label("bi-weekly")
    ELSE IF Between(27, days, 31) THEN Label("monthly")
    ELSE IF Between(89, days, 92) THEN Label("quarterly")
    ELSE IF Between(364, days, 366) THEN Label("annual")
    ELSE [label |-> "every N days", N |-> RoundHalfEven(days)]

\* faulty variant: min(count // 10, 1.0) * 50
CountScoreFloorDiv(count) == Rat(Min(count \div 10, 1) * 50, 1)

\* min(count / 10, 1.0) * 50
CountScore(count) == Rat(Min(count, 10) * 50, 10)

\* faulty variant: min(std_dev / 10, 1.0) * 30
StdScoreNotInverted(std_dev) == Rat(Min(std_dev, 1000) * 30, 1000)

\* (1 - min(std_dev / 10, 1.0)) * 30, std_dev in hundredths of a day
StdScore(std_dev) == Rat((1000 - Min(std_dev, 1000)) * 30, 1000)

\* (1 - amount_var) * 20
AmountScore(amount_var) == Rat((amount_var.den - amount_var.num) * 20, amount_var.den)

_calculate_confidence(count, std_dev, amount_var) ==
    RatAdd(RatAdd(CountScore(count), StdScore(std_dev)), AmountScore(amount_var))

\* faulty variant: first_date taken from the last charge and last_date from
\* the first
RecurringRecordDatesSwapped(merchant, txns_sorted) ==
    LET intervals == Intervals(txns_sorted)
        amounts == Amounts(txns_sorted)
    IN  [merchant |-> merchant,
         amount |-> Mean(amounts),
         amount_min |-> MinSeq(amounts),
         amount_max |-> MaxSeq(amounts),
         count |-> Len(txns_sorted),
         interval_days |-> Mean(intervals),
         interval_type |-> _classify_interval(Mean(intervals)),
         std_dev_days |-> StdInterval(intervals),
         category |-> txns_sorted[1].category,
         first_date |-> txns_sorted[Len(txns_sorted)].date,
         last_date |-> txns_sorted[1].date,
         transactions |-> txns_sorted,
         confidence |-> _calculate_confidence(Len(txns_sorted), StdInterval(intervals),
                                              AmountVariance(amounts))]

\* the record of one merchant that passed every gate
RecurringRecord(merchant, txns_sorted) ==
    LET intervals == Intervals(txns_sorted)
        amounts == Amounts(txns_sorted)
    IN  [merchant |-> merchant,
         amount |-> Mean(amounts),
         amount_min |-> MinSeq(amounts),
         amount_max |-> MaxSeq(amounts),
         count |-> Len(txns_sorted),
         interval_days |-> Mean(intervals),
         interval_type |-> _classify_interval(Mean(intervals)),
         std_dev_days |-> StdInterval(intervals),
         category |-> txns_sorted[1].category,
         first_date |-> txns_sorted[1].date,
         last_date |-> txns_sorted[Len(txns_sorted)].date,
         transactions |-> txns_sorted,
         confidence |-> _calculate_confidence(Len(txns_sorted), StdInterval(intervals),
                                              AmountVariance(amounts))]

\* the loop body's three "continue"s
Skipped(txns, min_occurrences, amount_tolerance) ==
    \/ Len(txns) < min_occurrences
    \/ Intervals(SortByDate(txns)) = <<>>
    \/ IntervalsInconsistent(Intervals(SortByDate(txns)))
    \/ AmountsVary(Amounts(SortByDate(txns)), amount_tolerance)

RECURSIVE Recurring(_, _, _, _)
\* the dict "recurring" after the loop over by_merchant, as the list of its values
Recurring(txns, order, min_occurrences, amount_tolerance) ==
    IF order = <<>> THEN <<>>
    ELSE LET m == Head(order)
             rest == Recurring(txns, Tail(order), min_occurrences, amount_tolerance)
         IN  IF Skipped(GroupOf(txns, m), min_occurrences, amount_tolerance) THEN rest
             ELSE <<RecurringRecord(m, SortByDate(GroupOf(txns, m)))>> \o rest

\* faulty variant: reverse=True left out, the lowest confidence first
InsertByConfidenceAscending(s, r) ==
    LET k == Cardinality({i \in 1..Len(s) : RatLE(s[i].confidence, r.confidence)})
    IN  SubSeq(s, 1, k) \o <<r>> \o SubSeq(s, k + 1, Len(s))

\* r put behind every element whose confidence is not lower: the stable
\* sorted(..., reverse=True)
InsertByConfidence(s, r) ==
    LET k == Cardinality({i \in 1..Len(s) : RatLE(r.confidence, s[i].confidence)})
    IN  SubSeq(s, 1, k) \o <<r>> \o SubSeq(s, k + 1, Len(s))

RECURSIVE SortByConfidence(_)
SortByConfidence(s) ==
    IF s = <<>> THEN <<>>
    ELSE InsertByConfidence(SortByConfidence(SubSeq(s, 1, Len(s) - 1)), s[Len(s)])

find_recurring(txns, min_occurrences, amount_tolerance) ==
    SortByConfidence(Recurring(txns, MerchantOrder(txns), min_occurrences, amount_tolerance))

(***************************************************************************)
(* What a call hands back: a value, or the exception it raises.            *)
(***************************************************************************)
\* what the caller holds of a call: the operation, its arguments and what it
\* handed back
Called(op, args, result) ==
    [op |-> op, args |-> args, outcome |-> result.outcome, value |-> result.value]

\* the caller holds no result
NoCall == [op |-> "none", args |-> <<>>, outcome |-> "none", value |-> <<>>]

Return(v) == [outcome |-> "return", value |-> v]

Raise(e) == [outcome |-> "raise", value |-> e]

(***************************************************************************)
(* The analyses derived from find_recurring                                *)
(***************************************************************************)
\* data["amount"] * (30 / data["interval_days"]), for interval_days /= 0
MonthlyCost(data) ==
    RatMul(data.amount, Rat(30 * data.interval_days.den, data.interval_days.num))

RECURSIVE SumMonthlyCost(_)
SumMonthlyCost(recurring) ==
    IF recurring = <<>> THEN Rat(0, 1)
    ELSE RatAdd(MonthlyCost(Head(recurring)), SumMonthlyCost(Tail(recurring)))

ZeroInterval(recurring) ==
    \E i \in 1..Len(recurring) : recurring[i].interval_days.num = 0

estimated_monthly_recurring(txns) ==
    LET recurring == find_recurring(txns, DefaultMinOccurrences, DefaultAmountTolerance)
    IN  IF ZeroInterval(recurring) THEN Raise("ZeroDivisionError")
        ELSE Return(SumMonthlyCost(recurring))

estimated_annual_recurring(txns) ==
    LET monthly == estimated_monthly_recurring(txns)
    IN  IF monthly.outcome = "raise" THEN monthly
        ELSE Return(RatMul(monthly.value, Rat(12, 1)))

\* days_since > expected_interval * 1.5
GapExceeded(data, today) ==
    2 * (today - data.last_date) * data.interval_days.den > 3 * data.interval_days.num

GapRecord(data, today) ==
    [merchant |-> data.merchant,
     last_occurrence |-> data.last_date,
     days_since |-> today - data.last_date,
     expected_interval |-> data.interval_days,
     status |-> "possibly cancelled",
     avg_monthly_impact |-> MonthlyCost(data)]

\* g put behind every element whose days_since is not lower
InsertByDaysSince(s, g) ==
    LET k == Cardinality({i \in 1..Len(s) : g.days_since <= s[i].days_since})
    IN  SubSeq(s, 1, k) \o <<g>> \o SubSeq(s, k + 1, Len(s))

RECURSIVE SortByDaysSince(_)
SortByDaysSince(s) ==
    IF s = <<>> THEN <<>>
    ELSE InsertByDaysSince(SortByDaysSince(SubSeq(s, 1, Len(s) - 1)), s[Len(s)])

RECURSIVE Gaps(_, _)
Gaps(recurring, today) ==
    IF recurring = <<>> THEN <<>>
    ELSE IF GapExceeded(Head(recurring), today)
         THEN <<GapRecord(Head(recurring), today)>> \o Gaps(Tail(recurring), today)
         ELSE Gaps(Tail(recurring), today)

\* faulty variant: the gaps taken from find_recurring(min_occurrences=2,
\* amount_tolerance=2.0)
analyze_gaps_any_amount(txns) ==
    LET recurring == find_recurring(txns, 2, 200)
        today == MaxSeq([i \in 1..Len(txns) |-> txns[i].date])
        flagged == SelectSeq(recurring, LAMBDA data : GapExceeded(data, today))
    IN  IF txns = <<>> THEN Raise("ValueError")
        ELSE IF ZeroInterval(flagged) THEN Raise("ZeroDivisionError")
        ELSE Return(SortByDaysSince(Gaps(recurring, today)))

analyze_gaps(txns) ==
    LET recurring == find_recurring(txns, 2, DefaultAmountTolerance)
        today == MaxSeq([i \in 1..Len(txns) |-> txns[i].date])
        flagged == SelectSeq(recurring, LAMBDA data : GapExceeded(data, today))
    IN  IF txns = <<>> THEN Raise("ValueError")
        ELSE IF ZeroInterval(flagged) THEN Raise("ZeroDivisionError")
        ELSE Return(SortByDaysSince(Gaps(recurring, today)))

\* str.lower() of the merchant names of the model, as character sequences
Lower(m) ==
    CASE m = "Streamo" -> <<"s", "t", "r", "e", "a", "m", "o">>
      [] m = "STREAMO" -> <<"s", "t", "r", "e", "a", "m", "o">>
      [] m = "Streamo+" -> <<"s", "t", "r", "e", "a", "m", "o", "+">>
      [] m = "Apple TV" -> <<"a", "p", "p", "l", "e", " ", "t", "v">>
      [] m = "iApple" -> <<"i", "a", "p", "p", "l", "e">>
      [] m = "Gymbo" -> <<"g", "y", "m", "b", "o">>

Keywords ==
    << <<"p", "a", "y", "p", "a", "l">>, <<"a", "m", "a", "z", "o", "n">>,
       <<"a", "p", "p", "l", "e">>, <<"g", "o", "o", "g", "l", "e">>,
       <<"s", "p", "o", "t", "i", "f", "y">>, <<"n", "e", "t", "f", "l", "i", "x">> >>

\* sub in s
Contains(sub, s) ==
    \E i \in 0..(Len(s) - Len(sub)) : SubSeq(s, i + 1, i + Len(sub)) = sub

_merchants_similar(m1, m2) ==
    LET m1_lower == Lower(m1)
        m2_lower == Lower(m2)
    IN  \/ m1_lower = m2_lower
        \/ Contains(m1_lower, m2_lower) \/ Contains(m2_lower, m1_lower)
        \/ \E k \in 1..Len(Keywords) :
              Contains(Keywords[k], m1_lower) /\ Contains(Keywords[k], m2_lower)

\* pct_diff < 0.10
AmountsClose(data1, data2) ==
    LET a1 == data1.amount
        a2 == data2.amount
        hi == IF RatLE(a1, a2) THEN a2 ELSE a1
        lo == IF RatLE(a1, a2) THEN a1 ELSE a2
    IN  10 * (hi.num * lo.den - lo.num * hi.den) < hi.num * lo.den

IsDuplicatePair(recurring, i, j) ==
    /\ _merchants_similar(recurring[i].merchant, recurring[j].merchant)
    /\ AmountsClose(recurring[i], recurring[j])

DuplicateRecord(data1, data2) ==
    [merchant_1 |-> data1.merchant,
     merchant_2 |-> data2.merchant,
     amount_1 |-> data1.amount,
     amount_2 |-> data2.amount,
     total_monthly_duplicate |-> RatAdd(MonthlyCost(data1), MonthlyCost(data2)),
     recommendation |-> "verify if intentional"]

RECURSIVE DuplicatesFrom(_, _, _)
\* the pairs (i, j), i < j, in the order of the two nested loops
DuplicatesFrom(recurring, i, j) ==
    IF i > Len(recurring) THEN <<>>
    ELSE IF j > Len(recurring) THEN DuplicatesFrom(recurring, i + 1, i + 2)
    ELSE IF IsDuplicatePair(recurring, i, j)
         THEN <<DuplicateRecord(recurring[i], recurring[j])>>
              \o DuplicatesFrom(recurring, i, j + 1)
         ELSE DuplicatesFrom(recurring, i, j + 1)

potential_duplicates_in_recurring(txns) ==
    LET recurring == find_recurring(txns, DefaultMinOccurrences, DefaultAmountTolerance)
    IN  IF \E i, j \in 1..Len(recurring) :
              /\ i < j
              /\ IsDuplicatePair(recurring, i, j)
              /\ (recurring[i].interval_days.num = 0 \/ recurring[j].interval_days.num = 0)
        THEN Raise("ZeroDivisionError")
        ELSE Return(DuplicatesFrom(recurring, 1, 2))

subscription_health_check(txns) ==
    LET recurring == find_recurring(txns, DefaultMinOccurrences, DefaultAmountTolerance)
        gaps == analyze_gaps(txns)
        dupes == potential_duplicates_in_recurring(txns)
        monthly_total == estimated_monthly_recurring(txns)
        annual_total == estimated_annual_recurring(txns)
    IN  IF gaps.outcome = "raise" THEN gaps
        ELSE IF dupes.outcome = "raise" THEN dupes
        ELSE IF monthly_total.outcome = "raise" THEN monthly_total
        ELSE Return([active_subscriptions |-> Len(recurring),
                     possibly_cancelled |-> Len(gaps.value),
                     potential_duplicates |-> Len(dupes.value),
                     monthly_total |-> monthly_total.value,
                     annual_total |-> annual_total.value,
                     recommendation |->
                         IF Len(gaps.value) > 0 \/ Len(dupes.value) > 0
                         THEN "review" ELSE "subscriptions look clean"])

(***************************************************************************)
(* Fixed-point logarithms for the amortization formula.  A real x is       *)
(* carried as floor(x * 2^26); the word is TLC's 32-bit integer.           *)
(***************************************************************************)
Ln2 == 46516320

\* floor(a * b / 2^26) for 0 <= a, b < 2^26, without leaving 32 bits
FMul(a, b) ==
    LET a1 == a \div 8192
        a0 == a % 8192
        b1 == b \div 8192
        b0 == b % 8192
    IN  a1 * b1 + (a1 * b0 + a0 * b1 + (a0 * b0) \div 8192) \div 8192

RECURSIVE LongDiv(_, _, _, _)
LongDiv(q, r, d, bits) ==
    IF bits = 0 THEN q
    ELSE LongDiv(2 * q + (2 * r) \div d, (2 * r) % d, d, bits - 1)

\* floor(n * 2^26 / d) for 0 <= n, 0 < d < 2^30
Fixed(n, d) == LongDiv(n \div d, n % d, d, 26)

RECURSIVE AtanhSum(_, _, _)
\* p / i + p z^2 / (i + 2) + ... for p = z^i
AtanhSum(p, z2, i) ==
    IF p = 0 THEN 0 ELSE p \div i + AtanhSum(FMul(p, z2), z2, i + 2)

\* atanh(z) for 0 <= z <= 1/3
Atanh(z) == AtanhSum(z, FMul(z, z), 1)

\* math.log(a / b) for 1 <= a / b < 2: 2 atanh((a - b) / (a + b))
LnNear(a, b) == 2 * Atanh(Fixed(a - b, a + b))

RECURSIVE LnRatio(_, _)
\* math.log(a / b) for a >= b > 0
LnRatio(a, b) == IF a < 2 * b THEN LnNear(a, b) ELSE Ln2 + LnRatio(a, 2 * b)

(***************************************************************************)
(* models/debt.py.  Money is in whole dollars, the annual rate in basis    *)
(* points (2100 is 0.21), credit_limit 0 is "no limit given" (None).       *)
(***************************************************************************)
Account(n, t, b, l, r, m) ==
    [name |-> n, account_type |-> t, current_balance |-> b, credit_limit |-> l,
     interest_rate |-> r, minimum_payment |-> m]

\* faulty variant: the yearly rate taken as the monthly one
monthly_interest_rate_not_divided(acc) == Rat(acc.interest_rate, 10000)

\* interest_rate / 12
monthly_interest_rate(acc) == Rat(acc.interest_rate, 120000)

\* (current_balance / credit_limit) * 100, or 0 without a credit limit
utilization(acc) ==
    IF acc.credit_limit = 0 THEN Rat(0, 1)
    ELSE Rat(acc.current_balance * 100, acc.credit_limit)

(***************************************************************************)
(* DebtAnalyzer                                                            *)
(***************************************************************************)
Infinity == [inf |-> TRUE, val |-> Rat(0, 1)]

Finite(q) == [inf |-> FALSE, val |-> q]

\* a <= b over the floats with float('inf')
MonthsLE(a, b) == b.inf \/ (~a.inf /\ RatLE(a.val, b.val))

\* numerator = 1 - (balance * monthly_rate / monthly_payment)
Numerator(balance, monthly_payment, monthly_rate) ==
    Rat(monthly_payment * monthly_rate.den - balance * monthly_rate.num,
        monthly_payment * monthly_rate.den)

\* -math.log(numerator) / math.log(1 + monthly_rate), in hundredths of a month
LogMonths(numerator, monthly_rate) ==
    LET top == LnRatio(numerator.den, numerator.num)
        bottom == LnRatio(monthly_rate.den + monthly_rate.num, monthly_rate.den)
    IN  Rat((top \div bottom) * 100 + ((top % bottom) * 100) \div bottom, 100)

\* faulty variant: balance // monthly_payment at a zero rate
_months_to_payoff_floor_division(balance, monthly_payment, monthly_rate) ==
    IF monthly_payment <= 0 THEN Infinity
    ELSE IF monthly_rate.num = 0 THEN Finite(Rat(balance \div monthly_payment, 1))
    ELSE IF Numerator(balance, monthly_payment, monthly_rate).num <= 0 THEN Infinity
    ELSE Finite(LogMonths(Numerator(balance, monthly_payment, monthly_rate), monthly_rate))

\* faulty variant: the zero-rate return left out, so that 0 / 0 in the formula
\* ends in the except clause
_months_to_payoff_no_zero_rate(balance, monthly_payment, monthly_rate) ==
    IF monthly_payment <= 0 THEN Infinity
    ELSE IF monthly_rate.num = 0 THEN Infinity
    ELSE IF Numerator(balance, monthly_payment, monthly_rate).num <= 0 THEN Infinity
    ELSE Finite(LogMonths(Numerator(balance, monthly_payment, monthly_rate), monthly_rate))

_months_to_payoff(balance, monthly_payment, monthly_rate) ==
    IF monthly_payment <= 0 THEN Infinity
    ELSE IF monthly_rate.num = 0 THEN Finite(Rat(balance, monthly_payment))
    ELSE IF Numerator(balance, monthly_payment, monthly_rate).num <= 0 THEN Infinity
    ELSE Finite(LogMonths(Numerator(balance, monthly_payment, monthly_rate), monthly_rate))

\* faulty variant: a put before the elements of the same rate
InsertByRateUnstable(s, a) ==
    LET k == Cardinality({i \in 1..Len(s) : s[i].interest_rate > a.interest_rate})
    IN  SubSeq(s, 1, k) \o <<a>> \o SubSeq(s, k + 1, Len(s))

\* a put behind every element whose rate is not lower: sorted(reverse=True) is stable
InsertByRate(s, a) ==
    LET k == Cardinality({i \in 1..Len(s) : s[i].interest_rate >= a.interest_rate})
    IN  SubSeq(s, 1, k) \o <<a>> \o SubSeq(s, k + 1, Len(s))

RECURSIVE SortByRate(_)
SortByRate(accs) ==
    IF accs = <<>> THEN <<>>
    ELSE InsertByRate(SortByRate(SubSeq(accs, 1, Len(accs) - 1)), accs[Len(accs)])

\* a put behind every element whose balance is not higher
InsertByBalance(s, a) ==
    LET k == Cardinality({i \in 1..Len(s) : s[i].current_balance <= a.current_balance})
    IN  SubSeq(s, 1, k) \o <<a>> \o SubSeq(s, k + 1, Len(s))

RECURSIVE SortByBalance(_)
SortByBalance(accs) ==
    IF accs = <<>> THEN <<>>
    ELSE InsertByBalance(SortByBalance(SubSeq(accs, 1, Len(accs) - 1)), accs[Len(accs)])

RECURSIVE SumMinimums(_)
SumMinimums(accs) ==
    IF accs = <<>> THEN 0 ELSE Head(accs).minimum_payment + SumMinimums(Tail(accs))

\* faulty variant: the first account gets the surplus without its own minimum
TotalPaymentSurplusOnly(accs, acc, i, monthly_payment) ==
    IF i = 1 THEN monthly_payment - SumMinimums(accs)
    ELSE acc.minimum_payment

\* faulty variant: the surplus given to every account, not only to the first
TotalPaymentSurplusToAll(accs, acc, i, monthly_payment) ==
    acc.minimum_payment + (monthly_payment - SumMinimums(accs))

\* the payment of the account at position i of the sorted list
TotalPayment(accs, acc, i, monthly_payment) ==
    IF i = 1 THEN acc.minimum_payment + (monthly_payment - SumMinimums(accs))
    ELSE acc.minimum_payment

PlanEntry(accs, acc, i, monthly_payment, rationale) ==
    [account |-> acc.name,
     current_balance |-> acc.current_balance,
     interest_rate |-> Rat(acc.interest_rate, 100),
     monthly_payment |-> TotalPayment(accs, acc, i, monthly_payment),
     months_to_payoff |-> _months_to_payoff(acc.current_balance,
                                            TotalPayment(accs, acc, i, monthly_payment),
                                            monthly_interest_rate(acc)),
     priority |-> i,
     rationale |-> rationale]

Strategy(accs, sorted, monthly_payment, rationale) ==
    [i \in 1..Len(sorted) |-> PlanEntry(accs, sorted[i], i, monthly_payment, rationale)]

\* faulty variant: only a negative budget gives the empty plan
avalanche_strategy_negative_only(accs, monthly_payment) ==
    IF monthly_payment < 0 THEN <<>>
    ELSE Strategy(accs, SortByRate(accs), monthly_payment,
                  "highest interest rate first (saves most interest)")

avalanche_strategy(accs, monthly_payment) ==
    IF monthly_payment <= 0 THEN <<>>
    ELSE Strategy(accs, SortByRate(accs), monthly_payment,
                  "highest interest rate first (saves most interest)")

snowball_strategy(accs, monthly_payment) ==
    IF monthly_payment <= 0 THEN <<>>
    ELSE Strategy(accs, SortByBalance(accs), monthly_payment,
                  "smallest balance first (psychological wins)")

RECURSIVE MaxMonths(_)
\* max(p["months_to_payoff"] for p in plan), plan not empty
MaxMonths(plan) ==
    IF Len(plan) = 1 THEN plan[1].months_to_payoff
    ELSE LET rest == MaxMonths(Tail(plan))
         IN  IF MonthsLE(rest, plan[1].months_to_payoff)
             THEN plan[1].months_to_payoff ELSE rest

\* int(x) of a finite x >= 0
IntOf(q) == q.num \div q.den

\* one pass of the inner loop over st = [remaining, total, done], amounts in
\* cents, rate in basis points a year
DecayStep(st, rate, payment) ==
    IF st.done THEN st
    ELSE LET interest == (st.remaining * rate) \div 120000
             left == st.remaining - (payment - interest)
         IN  [remaining |-> left, total |-> st.total + interest, done |-> left <= 0]

DecayStep4(st, rate, payment) ==
    DecayStep(DecayStep(DecayStep(DecayStep(st, rate, payment), rate, payment),
                        rate, payment), rate, payment)

DecayStep16(st, rate, payment) ==
    DecayStep4(DecayStep4(DecayStep4(DecayStep4(st, rate, payment), rate, payment),
                          rate, payment), rate, payment)

RECURSIVE Decay(_, _, _, _)
\* for _ in range(n): ... break once remaining <= 0
Decay(st, rate, payment, n) ==
    IF n = 0 \/ st.done THEN st
    ELSE IF n >= 16 THEN Decay(DecayStep16(st, rate, payment), rate, payment, n - 16)
    ELSE Decay(DecayStep(st, rate, payment), rate, payment, n - 1)

\* the interest one plan item adds to the total, in cents
ItemInterest(item) ==
    Decay([remaining |-> item.current_balance * 100, total |-> 0, done |-> FALSE],
          item.interest_rate.num * (100 \div item.interest_rate.den),
          item.monthly_payment * 100, IntOf(item.months_to_payoff.val)).total

RECURSIVE SumInterest(_)
SumInterest(plan) ==
    IF plan = <<>> THEN 0 ELSE ItemInterest(Head(plan)) + SumInterest(Tail(plan))

\* int(float('inf')) raises OverflowError
_project_total_interest(plan, months) ==
    IF \E i \in 1..Len(plan) : plan[i].months_to_payoff.inf THEN Raise("OverflowError")
    ELSE Return(Rat(SumInterest(plan), 100))

PlanOf(accs, monthly_payment, strategy) ==
    IF strategy = "avalanche" THEN avalanche_strategy(accs, monthly_payment)
    ELSE snowball_strategy(accs, monthly_payment)

payoff_timeline(accs, monthly_payment, strategy) ==
    LET plan == PlanOf(accs, monthly_payment, strategy)
        total_months == IF plan /= <<>> THEN MaxMonths(plan) ELSE Finite(Rat(0, 1))
        total_interest_paid == _project_total_interest(plan, total_months)
    IN  IF strategy \notin {"avalanche", "snowball"} THEN Return(<<>>)
        ELSE IF total_interest_paid.outcome = "raise" THEN total_interest_paid
        ELSE Return([strategy |-> strategy,
                     monthly_payment |-> monthly_payment,
                     months_to_debt_free |-> total_months,
                     years_to_debt_free |->
                         Finite(Rat(total_months.val.num, total_months.val.den * 12)),
                     projected_total_interest |-> total_interest_paid.value,
                     payoff_plan |-> plan])

\* sum(acc.current_balance for acc in accs)
RECURSIVE total_debt(_)
total_debt(accs) ==
    IF accs = <<>> THEN 0 ELSE Head(accs).current_balance + total_debt(Tail(accs))

RECURSIVE SumBalanceTimesRate(_)
\* sum(acc.current_balance * acc.interest_rate for acc in accs), in dollars
\* times basis points
SumBalanceTimesRate(accs) ==
    IF accs = <<>> THEN 0
    ELSE Head(accs).current_balance * Head(accs).interest_rate
             + SumBalanceTimesRate(Tail(accs))

\* faulty variant: the division made without the test of the total
avg_interest_rate_unguarded(accs) ==
    IF total_debt(accs) = 0 THEN Raise("ZeroDivisionError")
    ELSE Return(Rat(SumBalanceTimesRate(accs), total_debt(accs) * 10000))

\* the weighted average rate, as a fraction of one
avg_interest_rate(accs) ==
    IF total_debt(accs) = 0 THEN Return(Rat(0, 1))
    ELSE Return(Rat(SumBalanceTimesRate(accs), total_debt(accs) * 10000))

\* faulty variant: the bands closed at their lower ends (>= 50, >= 30)
UtilizationStatusClosedBelow(u) ==
    IF RatLE(Rat(50, 1), u) THEN "high"
    ELSE IF RatLE(Rat(30, 1), u) THEN "moderate"
    ELSE "low"

\* "high" if utilization > 50 else "moderate" if utilization > 30 else "low"
UtilizationStatus(u) ==
    IF RatLT(Rat(50, 1), u) THEN "high"
    ELSE IF RatLT(Rat(30, 1), u) THEN "moderate"
    ELSE "low"

RECURSIVE SumLimits(_)
\* sum(acc.credit_limit for acc in cc_accounts if acc.credit_limit)
SumLimits(accs) ==
    IF accs = <<>> THEN 0 ELSE Head(accs).credit_limit + SumLimits(Tail(accs))

CreditScoreImpact(overall_utilization) ==
    IF RatLT(Rat(70, 1), overall_utilization) THEN "severely hurts"
    ELSE IF RatLT(Rat(50, 1), overall_utilization) THEN "hurts"
    ELSE IF RatLT(Rat(30, 1), overall_utilization) THEN "slightly impacts"
    ELSE "minimal impact"

\* {} (here <<>>) without a credit card
utilization_impact(accs) ==
    LET cc_accounts == SelectSeq(accs, LAMBDA acc : acc.account_type = "credit_card")
        total_limit == SumLimits(cc_accounts)
        total_balance == total_debt(cc_accounts)
        overall_utilization ==
            IF total_limit > 0 THEN Rat(total_balance * 100, total_limit) ELSE Rat(0, 1)
    IN  IF cc_accounts = <<>> THEN Return(<<>>)
        ELSE Return([overall_utilization |-> overall_utilization,
                     accounts |->
                         [i \in 1..Len(cc_accounts) |->
                             [name |-> cc_accounts[i].name,
                              utilization |-> utilization(cc_accounts[i]),
                              status |-> UtilizationStatus(utilization(cc_accounts[i]))]],
                     credit_score_impact |-> CreditScoreImpact(overall_utilization),
                     recommendation |->
                         IF RatLT(Rat(50, 1), overall_utilization)
                         THEN "pay down high-utilization cards ASAP"
                         ELSE "keep paying down, getting close to optimal"])

(***************************************************************************)
(* The inputs of the model.                                                *)
(***************************************************************************)
\* transactions as the loader hands them over, refunds (negative) included
TxnPool ==
    {Txn(d, "Streamo", a, "Entertainment") : d \in {0, 20, 60}, a \in {500, 3500}}
    \cup {Txn(20, "Streamo", -500, "Entertainment"),
          Txn(0, "Gymbo", 500, "Fitness"), Txn(60, "Gymbo", 500, "Fitness")}

RawLedgers == UNION {[1..n -> TxnPool] : n \in 0..MaxTxns}

RegularIntervals ==
    {0, 5, 6, 7, 8, 9, 12, 13, 15, 16, 26, 27, 30, 31, 32, 88, 89, 92, 93, 363, 364, 366, 367}

\* n charges of a cents by merchant m, d days apart from day 0 on, the last
\* one j days late
RegularLedger(m, d, a, n, j) ==
    [i \in 1..n |-> Txn((i - 1) * d + (IF i = n /\ n > 1 THEN j ELSE 0), m, a, "Entertainment")]

Reversed(s) == [i \in 1..Len(s) |-> s[Len(s) + 1 - i]]

RegularLedgers ==
    LET asc == {RegularLedger("Streamo", d, 1500, n, j) :
                    d \in RegularIntervals, n \in 1..MaxOccurrences, j \in {0, 1}}
    IN  asc \cup {Reversed(l) : l \in asc}

\* a regular ledger whose first charge was made twice on the same day
DoubleChargeLedgers ==
    {<<Txn(0, "Streamo", 1500, "Entertainment")>> \o RegularLedger("Streamo", d, 1500, n, 0) :
        d \in {7, 30}, n \in 2..(MaxOccurrences - 1)}

MerchantPool == <<"Streamo", "STREAMO", "Streamo+", "Apple TV", "iApple", "Gymbo">>

\* how one merchant charges: n charges of a cents, d days apart from day 0 on
ChargePlans ==
    {[d |-> 0, a |-> 1000, n |-> 3], [d |-> 10, a |-> 1000, n |-> 2],
     [d |-> 10, a |-> 1000, n |-> 3], [d |-> 25, a |-> 1000, n |-> 2],
     [d |-> 25, a |-> 1000, n |-> 3], [d |-> 25, a |-> 900, n |-> 3]}

RECURSIVE Ascending(_)
\* a set of numbers as the increasing sequence
Ascending(S) ==
    IF S = {} THEN <<>>
    ELSE LET lo == CHOOSE x \in S : \A y \in S : x <= y
         IN  <<lo>> \o Ascending(S \ {lo})

RECURSIVE Concat(_)
Concat(ledgers) == IF ledgers = <<>> THEN <<>> ELSE Head(ledgers) \o Concat(Tail(ledgers))

\* the merchants of the pool taken in pool order or against it
MerchantOrders(k) ==
    LET up == {Ascending(S) : S \in {T \in SUBSET DOMAIN MerchantPool : Cardinality(T) = k}}
    IN  up \cup {Reversed(o) : o \in up}

\* ledgers of several merchants, each charging by a plan of its own
MerchantLedgers ==
    UNION {{Concat([i \in 1..k |-> RegularLedger(MerchantPool[o[i]], p[i].d, p[i].a, p[i].n, 0)]) :
               o \in MerchantOrders(k), p \in [1..k -> ChargePlans]} :
           k \in 2..MaxMerchants}

AccountPool ==
    {[current_balance |-> b, interest_rate |-> r, minimum_payment |-> m] :
        b \in {0, 100, 5000}, r \in {0, 500, 3000}, m \in {0, 25}}
    \cup {[current_balance |-> 5000, interest_rate |-> r, minimum_payment |-> 25] :
              r \in {1200, 2100}}

AccountNames == <<"A", "B", "C", "D">>

\* cards around the edges of the utilization bands, one of them without a
\* limit, and a loan that is no card
CardPool ==
    {[account_type |-> "credit_card", current_balance |-> b, credit_limit |-> 1000] :
        b \in {290, 300, 310, 500, 510}}
    \cup {[account_type |-> "credit_card", current_balance |-> 300, credit_limit |-> 0],
          [account_type |-> "student_loan", current_balance |-> 510, credit_limit |-> 0]}

CardLists ==
    {[i \in 1..Len(l) |-> Account(AccountNames[i], l[i].account_type, l[i].current_balance,
                             l[i].credit_limit, 2100, 25)] :
        l \in UNION {[1..n -> CardPool] : n \in 1..MaxAccounts}}

AccountLists ==
    {[i \in 1..Len(l) |-> Account(AccountNames[i], "credit_card", l[i].current_balance, 0,
                             l[i].interest_rate, l[i].minimum_payment)] :
        l \in UNION {[1..n -> AccountPool] : n \in 0..MaxAccounts}}
    \cup CardLists

MinOccurrencesArgs == 1..DefaultMinOccurrences

ToleranceArgs == {DefaultAmountTolerance, 150, 200}

MonthlyPayments == {-50, 0, 30, 50, 200}

Strategies == {"avalanche", "snowball", "other"}

\* the inputs of the runs in which the caller keeps a result: charges of two
\* merchants, and accounts that tie in rate or in balance
KeptTxnPool ==
    {Txn(d, "Streamo", 500, "Entertainment") : d \in {0, 20, 60}}
    \cup {Txn(60, "Gymbo", 500, "Fitness")}

KeptLedgers == UNION {[1..n -> KeptTxnPool] : n \in 0..MaxKeptTxns}

KeptAccountLists ==
    {[i \in 1..Len(l) |-> Account(AccountNames[i], "credit_card", l[i].b, 0, l[i].r, 25)] :
        l \in UNION {[1..n -> [b : {100, 5000}, r : {500, 3000}]] : n \in 1..MaxAccounts}}

(***************************************************************************)
(* The state machine: one detector (transactions), one analyzer            *)
(* (accounts), and the outcome of the call the caller has not taken yet    *)
(* (ret).  The caller is sequential: main.py makes one call at a time.     *)
(***************************************************************************)
\* main.py builds the detector from the loaded transactions and the analyzer
\* from the configured accounts
Init ==
    /\ ret = NoCall
    /\ \/ /\ \E raw \in RawLedgers \cup RegularLedgers \cup MerchantLedgers
                           \cup DoubleChargeLedgers :
                 transactions = Construct(raw)
          /\ accounts = <<>>
       \/ /\ transactions = <<>>
          /\ accounts \in AccountLists
    /\ built = [transactions |-> transactions, accounts |-> accounts]
    /\ kept = NoCall

FindRecurring ==
    /\ ret.op = "none"
    /\ \E mo \in MinOccurrencesArgs, tol \in ToleranceArgs :
          ret' = Called("find_recurring", <<mo, tol>>,
                        Return(find_recurring(transactions, mo, tol)))
    /\ UNCHANGED <<transactions, accounts, built, kept>>

EstimatedMonthlyRecurring ==
    /\ ret.op = "none"
    /\ ret' = Called("estimated_monthly_recurring", <<>>,
                     estimated_monthly_recurring(transactions))
    /\ UNCHANGED <<transactions, accounts, built, kept>>

AnalyzeGaps ==
    /\ ret.op = "none"
    /\ ret' = Called("analyze_gaps", <<>>, analyze_gaps(transactions))
    /\ UNCHANGED <<transactions, accounts, built, kept>>

PotentialDuplicates ==
    /\ ret.op = "none"
    /\ ret' = Called("potential_duplicates_in_recurring", <<>>,
                     potential_duplicates_in_recurring(transactions))
    /\ UNCHANGED <<transactions, accounts, built, kept>>

SubscriptionHealthCheck ==
    /\ ret.op = "none"
    /\ ret' = Called("subscription_health_check", <<>>,
                     subscription_health_check(transactions))
    /\ UNCHANGED <<transactions, accounts, built, kept>>

\* faulty variant: self.accounts.sort(...) in place of sorted(self.accounts, ...)
AvalancheStrategySortsInPlace ==
    /\ ret.op = "none"
    /\ \E mp \in MonthlyPayments :
          ret' = Called("avalanche_strategy", <<mp>>, Return(avalanche_strategy(accounts, mp)))
    /\ accounts' = SortByRate(accounts)
    /\ UNCHANGED <<transactions, built, kept>>

AvalancheStrategy ==
    /\ ret.op = "none"
    /\ \E mp \in MonthlyPayments :
          ret' = Called("avalanche_strategy", <<mp>>, Return(avalanche_strategy(accounts, mp)))
    /\ UNCHANGED <<transactions, accounts, built, kept>>

SnowballStrategy ==
    /\ ret.op = "none"
    /\ \E mp \in MonthlyPayments :
          ret' = Called("snowball_strategy", <<mp>>, Return(snowball_strategy(accounts, mp)))
    /\ UNCHANGED <<transactions, accounts, built, kept>>

PayoffTimeline ==
    /\ ret.op = "none"
    /\ \E mp \in MonthlyPayments, strategy \in Strategies :
          ret' = Called("payoff_timeline", <<mp, strategy>>,
                        payoff_timeline(accounts, mp, strategy))
    /\ UNCHANGED <<transactions, accounts, built, kept>>

AvgInterestRate ==
    /\ ret.op = "none"
    /\ ret' = Called("avg_interest_rate", <<>>, avg_interest_rate(accounts))
    /\ UNCHANGED <<transactions, accounts, built, kept>>

UtilizationImpact ==
    /\ ret.op = "none"
    /\ ret' = Called("utilization_impact", <<>>, utilization_impact(accounts))
    /\ UNCHANGED <<transactions, accounts, built, kept>>

\* the caller keeps the result of a call (detected_recurring = ...), once
Keep ==
    /\ ret.op /= "none"
    /\ kept.op = "none"
    /\ kept' = ret
    /\ UNCHANGED <<transactions, accounts, ret, built>>

\* the caller takes the result; only then does it make its next call
Continue ==
    /\ ret.op /= "none"
    /\ ret' = NoCall
    /\ UNCHANGED <<transactions, accounts, built, kept>>

Next ==
    \/ FindRecurring
    \/ EstimatedMonthlyRecurring
    \/ AnalyzeGaps
    \/ PotentialDuplicates
    \/ SubscriptionHealthCheck
    \/ AvalancheStrategy
    \/ SnowballStrategy
    \/ PayoffTimeline
    \/ AvgInterestRate
    \/ UtilizationImpact
    \/ Continue

Spec == Init /\ [][Next]_vars

\* the runs in which the caller keeps the result of one call and goes on calling
InitKept ==
    /\ ret = NoCall
    /\ \/ /\ \E raw \in KeptLedgers : transactions = Construct(raw)
          /\ accounts = <<>>
       \/ /\ transactions = <<>>
          /\ accounts \in KeptAccountLists
    /\ built = [transactions |-> transactions, accounts |-> accounts]
    /\ kept = NoCall

NextKept ==
    \/ FindRecurring
    \/ AnalyzeGaps
    \/ AvalancheStrategy
    \/ SnowballStrategy
    \/ PayoffTimeline
    \/ Keep
    \/ Continue

SpecKept == InitKept /\ [][NextKept]_vars

(***************************************************************************)
(* Properties.  The vocabulary below is written from the statements, not   *)
(* from the operators above: a group is the set of positions of one        *)
(* merchant in self.transactions.                                          *)
(***************************************************************************)
Returned(op) == ret.op = op /\ ret.outcome = "return"

MerchantsSeen == {transactions[i].merchant : i \in DOMAIN transactions}

Group(m) == {i \in DOMAIN transactions : transactions[i].merchant = m}

GroupDates(m) == {transactions[i].date : i \in Group(m)}

GroupAmounts(m) == {transactions[i].amount : i \in Group(m)}

Earliest(m) == CHOOSE d \in GroupDates(m) : \A e \in GroupDates(m) : d <= e

Latest(m) == CHOOSE d \in GroupDates(m) : \A e \in GroupDates(m) : d >= e

\* the positions of the result that hold merchant m
Entries(result, m) == {k \in DOMAIN result : result[k].merchant = m}

\* the gaps between the charges of m, in date order
GapsOf(m) == Intervals(SortByDate(GroupOf(transactions, m)))

RECURSIVE SumSqDev(_, _, _)
\* the sum over the gaps x of (k x - S)^2
SumSqDev(gaps, k, S) ==
    IF gaps = <<>> THEN 0
    ELSE (k * Head(gaps) - S) * (k * Head(gaps) - S) + SumSqDev(Tail(gaps), k, S)

\* the sample standard deviation of the gaps exceeds half their mean:
\* sum (x - S/k)^2 / (k - 1) > (S / 2k)^2, for k >= 2 gaps
StdevExceedsHalfMean(gaps) ==
    /\ Len(gaps) >= 2
    /\ 4 * SumSqDev(gaps, Len(gaps), SumSeq(gaps))
         > (Len(gaps) - 1) * SumSeq(gaps) * SumSeq(gaps)

\* every two charges of m that follow each other are d days apart
EvenlySpaced(m, d) ==
    \A i \in DOMAIN GapsOf(m) : GapsOf(m)[i] = d

\* the three-charge scenario: 15.00 from "Streamo" on day 0, 30 and 60
StreamoScenario ==
    /\ Len(transactions) = 3
    /\ MerchantsSeen = {"Streamo"}
    /\ GroupAmounts("Streamo") = {1500}
    /\ GroupDates("Streamo") = {0, 30, 60}

DefaultCall ==
    Returned("find_recurring") /\ ret.args = <<DefaultMinOccurrences, DefaultAmountTolerance>>

\* C1 (as stated): in the three-charge "Streamo" scenario, find_recurring() with
\* default parameters returns a record for "Streamo" whose confidence is at
\* least 90.
C1_ConfidenceAtLeast90 ==
    (StreamoScenario /\ DefaultCall) =>
        \E k \in DOMAIN ret.value :
            /\ ret.value[k].merchant = "Streamo"
            /\ RatLE(Rat(90, 1), ret.value[k].confidence)

\* C1 (amended): in the three-charge "Streamo" scenario, find_recurring() with
\* default parameters returns exactly one record, for "Streamo", and its
\* confidence is 65 (15 for three occurrences, 30 for a zero deviation, 20
\* for a zero amount variance).
C1_ConfidenceIs65 ==
    (StreamoScenario /\ DefaultCall) =>
        /\ Len(ret.value) = 1
        /\ ret.value[1].merchant = "Streamo"
        /\ ret.value[1].confidence = Rat(65, 1)

C1_Witness ==
    StreamoScenario /\ DefaultCall /\ Len(ret.value) = 1 /\ ret.value[1].count = 3

\* the plan the timeline call was made over
TimelinePlan == PlanOf(accounts, ret.args[1], ret.args[2])

\* the entry's payment never pays the balance off: it is not positive, or
\* the rate is positive and the payment does not exceed the monthly interest
NeverAmortizes(p) ==
    \/ p.monthly_payment <= 0
    \/ /\ p.interest_rate.num > 0
       /\ p.monthly_payment * 1200 * p.interest_rate.den
            <= p.current_balance * p.interest_rate.num

\* C2: when an account of the plan has a payment that never amortizes its
\* balance, payoff_timeline (avalanche or snowball) returns normally with
\* months_to_debt_free infinite; it never raises.
C2_InfiniteHorizonReturned ==
    (/\ ret.op = "payoff_timeline"
     /\ ret.args[2] \in {"avalanche", "snowball"}
     /\ \E i \in DOMAIN TimelinePlan : NeverAmortizes(TimelinePlan[i])) =>
        /\ ret.outcome = "return"
        /\ ret.value.months_to_debt_free.inf

\* C3: on a detector without transactions, find_recurring, analyze_gaps and
\* potential_duplicates_in_recurring return an empty result and
\* estimated_monthly_recurring returns 0; none of them raises.
C3_EmptyInputEmptyResult ==
    transactions = <<>> =>
        /\ ret.op \in {"find_recurring", "analyze_gaps", "potential_duplicates_in_recurring"}
              => (ret.outcome = "return" /\ ret.value = <<>>)
        /\ ret.op = "estimated_monthly_recurring"
              => (ret.outcome = "return" /\ ret.value = Rat(0, 1))

\* the charges of m all have amount a, and there are n of them
ConstantAmount(m, a, n) == GroupAmounts(m) = {a} /\ Cardinality(Group(m)) = n

\* exactly one record of the result is m's, and it reports d, a and n
ReportedOnce(result, m, d, a, n) ==
    \E k \in DOMAIN result :
        /\ Entries(result, m) = {k}
        /\ result[k].interval_days = Rat(d, 1)
        /\ result[k].amount = Rat(a, 1)
        /\ result[k].count = n

\* C4 (as stated): every merchant group with a constant interval d and a
\* constant amount a, repeated n >= min_occurrences times, has exactly one
\* entry in the result of find_recurring(min_occurrences), with amount a,
\* count n and (when there is an interval at all) interval_days d.
C4_EveryRegularGroupReported ==
    Returned("find_recurring") =>
        \A m \in MerchantsSeen : \A a \in GroupAmounts(m) : \A n \in 1..Len(transactions) :
            (/\ ConstantAmount(m, a, n)
             /\ n >= ret.args[1]
             /\ n >= 2 => EvenlySpaced(m, GapsOf(m)[1])) =>
                IF n >= 2 THEN ReportedOnce(ret.value, m, GapsOf(m)[1], a, n)
                ELSE \E k \in DOMAIN ret.value :
                        /\ Entries(ret.value, m) = {k}
                        /\ ret.value[k].amount = Rat(a, 1)
                        /\ ret.value[k].count = n

\* C4 (amended): every merchant group with a constant interval d and a
\* constant amount a, repeated n >= max(min_occurrences, 2) times, has
\* exactly one entry in the result of find_recurring(min_occurrences), with
\* interval_days d, amount a and count n; a group of one charge is never
\* reported.
C4_RegularGroupReported ==
    Returned("find_recurring") =>
        \A m \in MerchantsSeen : \A a \in GroupAmounts(m) : \A n \in 1..Len(transactions) :
            /\ (/\ ConstantAmount(m, a, n)
                /\ n >= ret.args[1]
                /\ n >= 2
                /\ EvenlySpaced(m, GapsOf(m)[1])) =>
                   ReportedOnce(ret.value, m, GapsOf(m)[1], a, n)
            /\ Cardinality(Group(m)) = 1 => Entries(ret.value, m) = {}

C4_Witness ==
    /\ Returned("find_recurring")
    /\ ConstantAmount("Streamo", 1500, 10)
    /\ EvenlySpaced("Streamo", 7)
    /\ ReportedOnce(ret.value, "Streamo", 7, 1500, 10)

\* a record of a group whose gaps and amounts do not vary at all
Steady(r) == r.std_dev_days = 0 /\ r.amount_min = r.amount_max

\* the confidence of n occurrences with a zero deviation and a zero variance
SteadyConfidence(n) == _calculate_confidence(n, 0, Rat(0, 1))

\* C5 (as stated): with the interval deviation and the amount variance held
\* at 0, the confidence is strictly increasing in the number of occurrences:
\* n1 < n2 implies confidence(n1) < confidence(n2).
C5_StrictlyIncreasing ==
    Returned("find_recurring") =>
        \A k \in DOMAIN ret.value :
            Steady(ret.value[k]) =>
                \A n1 \in 1..(ret.value[k].count - 1) :
                    RatLT(SteadyConfidence(n1), ret.value[k].confidence)

\* C5 (amended): with the interval deviation and the amount variance held
\* at 0, the confidence never decreases with the number of occurrences, and
\* it strictly increases up to 10 occurrences: n1 < n2 implies
\* confidence(n1) <= confidence(n2), and confidence(n1) < confidence(n2)
\* when n2 <= 10; from 10 occurrences on it stays at 100.
C5_IncreasingUpToTen ==
    Returned("find_recurring") =>
        \A k \in DOMAIN ret.value :
            Steady(ret.value[k]) =>
                /\ \A n1 \in 1..(ret.value[k].count - 1) :
                      /\ RatLE(SteadyConfidence(n1), ret.value[k].confidence)
                      /\ ret.value[k].count <= 10
                            => RatLT(SteadyConfidence(n1), ret.value[k].confidence)
                /\ ret.value[k].count >= 10 => ret.value[k].confidence = Rat(100, 1)

C5_Witness ==
    /\ Returned("find_recurring")
    /\ \E k \in DOMAIN ret.value :
          /\ Steady(ret.value[k])
          /\ ret.value[k].count = 11
          /\ ret.value[k].confidence = SteadyConfidence(10)

\* C6: every record returned by find_recurring, whatever the transactions
\* and the configuration, has a confidence within [0, 100].
C6_ConfidenceInRange ==
    Returned("find_recurring") =>
        \A k \in DOMAIN ret.value :
            /\ RatLE(Rat(0, 1), ret.value[k].confidence)
            /\ RatLE(ret.value[k].confidence, Rat(100, 1))

\* C7: a merchant whose gaps have a sample standard deviation above half
\* their mean does not appear in the result of find_recurring.
C7_IrregularGroupAbsent ==
    Returned("find_recurring") =>
        \A m \in MerchantsSeen :
            StdevExceedsHalfMean(GapsOf(m)) => Entries(ret.value, m) = {}

C7_Witness ==
    /\ Returned("find_recurring")
    /\ \E m \in MerchantsSeen :
          /\ StdevExceedsHalfMean(GapsOf(m))
          /\ Cardinality(Group(m)) >= ret.args[1]
          /\ Cardinality(GroupAmounts(m)) = 1
          /\ Entries(ret.value, m) = {}

Highest(m) == CHOOSE a \in GroupAmounts(m) : \A b \in GroupAmounts(m) : a >= b

Lowest(m) == CHOOSE a \in GroupAmounts(m) : \A b \in GroupAmounts(m) : a <= b

\* 100 * (max - min) * n, to be compared with tolerance (in percent) * sum:
\* the two sides of (max - min) / mean against the tolerance
RangeSide(m) == 100 * (Highest(m) - Lowest(m)) * Cardinality(Group(m))

ToleranceSide(m, tolerance) == tolerance * SumSeq(Amounts(GroupOf(transactions, m)))

\* C8: a merchant whose amount range over its mean amount exceeds
\* amount_tolerance does not appear in the result; a ratio equal to the
\* tolerance does not reject the group (it appears when it has enough
\* charges and consistent gaps).
C8_AmountGate ==
    Returned("find_recurring") =>
        \A m \in MerchantsSeen :
            /\ RangeSide(m) > ToleranceSide(m, ret.args[2]) => Entries(ret.value, m) = {}
            /\ (/\ RangeSide(m) = ToleranceSide(m, ret.args[2])
                /\ Cardinality(Group(m)) >= ret.args[1]
                /\ Cardinality(Group(m)) >= 2
                /\ ~StdevExceedsHalfMean(GapsOf(m))) => Entries(ret.value, m) /= {}

C8_Witness ==
    /\ Returned("find_recurring")
    /\ \E m \in MerchantsSeen :
          /\ Highest(m) > Lowest(m)
          /\ RangeSide(m) = ToleranceSide(m, ret.args[2])
          /\ Entries(ret.value, m) /= {}

\* lo <= x <= hi for a rational x
Within(lo, x, hi) == lo * x.den <= x.num /\ x.num <= hi * x.den

Named(x) ==
    \/ Within(6, x, 8) \/ Within(13, x, 15) \/ Within(27, x, 31)
    \/ Within(89, x, 92) \/ Within(364, x, 366)

\* C9: a mean interval in [6,8] is weekly, [13,15] bi-weekly, [27,31]
\* monthly, [89,92] quarterly, [364,366] annual, the bounds included; every
\* other value gets the generic label, which for a whole number of days N
\* reads "every N days" (8 is weekly, 9 is "every 9 days", 31 is monthly,
\* 32 is "every 32 days").
C9_ClassificationRanges ==
    Returned("find_recurring") =>
        \A k \in DOMAIN ret.value :
            LET x == ret.value[k].interval_days
                t == ret.value[k].interval_type
            IN  /\ Within(6, x, 8) => t.label = "weekly"
                /\ Within(13, x, 15) => t.label = "bi-weekly"
                /\ Within(27, x, 31) => t.label = "monthly"
                /\ Within(89, x, 92) => t.label = "quarterly"
                /\ Within(364, x, 366) => t.label = "annual"
                /\ ~Named(x) => t.label = "every N days"
                /\ (~Named(x) /\ x.den = 1) => t.N = x.num

C9_Witness ==
    /\ Returned("find_recurring")
    /\ \E k \in DOMAIN ret.value :
          /\ ret.value[k].interval_days = Rat(9, 1)
          /\ ret.value[k].interval_type = [label |-> "every N days", N |-> 9]

\* C10: in the three-charge "Streamo" scenario the detected record has
\* interval_type "monthly" and interval_days 30, and
\* estimated_monthly_recurring returns 15.00.
C10_StreamoMonthly ==
    /\ (StreamoScenario /\ DefaultCall) =>
          /\ Len(ret.value) = 1
          /\ ret.value[1].interval_type.label = "monthly"
          /\ ret.value[1].interval_days = Rat(30, 1)
    /\ (StreamoScenario /\ ret.op = "estimated_monthly_recurring") =>
          /\ ret.outcome = "return"
          /\ ret.value = Rat(1500, 1)

C10_Witness ==
    /\ StreamoScenario
    /\ Returned("estimated_monthly_recurring")
    /\ ret.value = Rat(1500, 1)

\* C11: the records returned by find_recurring are ordered by descending
\* confidence: of two consecutive records, the earlier one's confidence is
\* greater than or equal to the later one's.
C11_DescendingConfidence ==
    Returned("find_recurring") =>
        \A k \in 1..(Len(ret.value) - 1) :
            RatLE(ret.value[k + 1].confidence, ret.value[k].confidence)

\* two records, the more confident one first although its merchant was met
\* second in the transaction list
C11_Witness ==
    /\ Returned("find_recurring")
    /\ Len(ret.value) = 2
    /\ RatLT(ret.value[2].confidence, ret.value[1].confidence)
    /\ transactions[1].merchant = ret.value[2].merchant

\* the position in the analyzer's account list of the account a plan entry names
InputPosition(p) == CHOOSE i \in DOMAIN accounts : accounts[i].name = p.account

\* the entries of the plan are the accounts of the list, each once, with
\* their own balance and rate (the rate as a percentage)
ListsTheAccounts(plan) ==
    /\ Len(plan) = Len(accounts)
    /\ {plan[k].account : k \in DOMAIN plan} = {accounts[i].name : i \in DOMAIN accounts}
    /\ \A k \in DOMAIN plan :
          /\ plan[k].current_balance = accounts[InputPosition(plan[k])].current_balance
          /\ plan[k].interest_rate = Rat(accounts[InputPosition(plan[k])].interest_rate, 100)

\* C12: the plan of avalanche_strategy lists the accounts by interest rate
\* descending, the plan of snowball_strategy by current balance ascending,
\* with priority = position (1..n); in both, accounts with equal sort keys
\* keep their order in the input list.  (With a budget that is not positive
\* the plan is empty and lists nothing.)
C12_PlanOrder ==
    /\ Returned("avalanche_strategy") =>
          /\ ret.args[1] > 0 => ListsTheAccounts(ret.value)
          /\ \A k \in DOMAIN ret.value : ret.value[k].priority = k
          /\ \A j, k \in DOMAIN ret.value :
                j < k =>
                  /\ RatLE(ret.value[k].interest_rate, ret.value[j].interest_rate)
                  /\ ret.value[k].interest_rate = ret.value[j].interest_rate
                        => InputPosition(ret.value[j]) < InputPosition(ret.value[k])
    /\ Returned("snowball_strategy") =>
          /\ ret.args[1] > 0 => ListsTheAccounts(ret.value)
          /\ \A k \in DOMAIN ret.value : ret.value[k].priority = k
          /\ \A j, k \in DOMAIN ret.value :
                j < k =>
                  /\ ret.value[j].current_balance <= ret.value[k].current_balance
                  /\ ret.value[k].current_balance = ret.value[j].current_balance
                        => InputPosition(ret.value[j]) < InputPosition(ret.value[k])

\* an avalanche plan that had to move the second account of the list to the
\* front
C12_Witness ==
    /\ Returned("avalanche_strategy")
    /\ Len(ret.value) = 2
    /\ accounts[1].interest_rate < accounts[2].interest_rate
    /\ ret.value[1].account = accounts[2].name
    /\ ret.value[1].priority = 1

RECURSIVE MinimumsUpTo(_)
\* the minimum payments of the first n accounts of the list, added up
MinimumsUpTo(n) == IF n = 0 THEN 0 ELSE accounts[n].minimum_payment + MinimumsUpTo(n - 1)

\* what is left of the budget once every minimum payment is made
Surplus(monthly_budget) == monthly_budget - MinimumsUpTo(Len(accounts))

\* the priority-1 entry gets its minimum plus the surplus, every other entry
\* its minimum
PaymentsAssigned(plan, monthly_budget) ==
    \A k \in DOMAIN plan :
        plan[k].monthly_payment =
            accounts[InputPosition(plan[k])].minimum_payment
              + (IF plan[k].priority = 1 THEN Surplus(monthly_budget) ELSE 0)

\* the fixture: a small cheap debt first, a large expensive one second
DivergingFixture ==
    /\ Len(accounts) = 2
    /\ accounts[1].current_balance = 100 /\ accounts[1].interest_rate = 500
    /\ accounts[2].current_balance = 5000 /\ accounts[2].interest_rate = 3000

\* the account of the list that the plan gives priority 1
Target(plan) == InputPosition(plan[CHOOSE k \in DOMAIN plan : plan[k].priority = 1])

\* C13: in both strategies with a positive budget, the priority-1 account is
\* assigned minimum_payment + (monthly_budget - sum of all minimum payments)
\* and every other account exactly its own minimum payment; for the accounts
\* [{balance 100, rate 0.05}, {balance 5000, rate 0.30}] avalanche gives the
\* surplus to the second account and snowball to the first.
C13_SurplusToPriorityOne ==
    /\ (ret.op \in {"avalanche_strategy", "snowball_strategy"} /\ ret.args[1] > 0) =>
          /\ ret.outcome = "return"
          /\ PaymentsAssigned(ret.value, ret.args[1])
          /\ accounts /= <<>> => \E k \in DOMAIN ret.value : ret.value[k].priority = 1
    /\ (DivergingFixture /\ Returned("avalanche_strategy") /\ ret.args[1] > 0) =>
          Target(ret.value) = 2
    /\ (DivergingFixture /\ Returned("snowball_strategy") /\ ret.args[1] > 0) =>
          Target(ret.value) = 1

\* the fixture with minimums of 25 and a budget of 200: avalanche pays 175 on
\* the second account
C13_Witness ==
    /\ DivergingFixture
    /\ Returned("avalanche_strategy")
    /\ ret.args[1] = 200
    /\ accounts[1].minimum_payment = 25 /\ accounts[2].minimum_payment = 25
    /\ ret.value[1].account = accounts[2].name
    /\ ret.value[1].monthly_payment = 175
    /\ ret.value[2].monthly_payment = 25

\* C14: for any account list, avalanche_strategy and snowball_strategy called
\* with monthly_payment <= 0 return an empty plan, and payoff_timeline over
\* that empty plan returns months_to_debt_free 0 and projected_total_interest
\* 0 without raising.
C14_NonPositiveBudget ==
    /\ (ret.op \in {"avalanche_strategy", "snowball_strategy"} /\ ret.args[1] <= 0) =>
          (ret.outcome = "return" /\ ret.value = <<>>)
    /\ (/\ ret.op = "payoff_timeline"
        /\ ret.args[1] <= 0
        /\ ret.args[2] \in {"avalanche", "snowball"}) =>
          /\ ret.outcome = "return"
          /\ ret.value.payoff_plan = <<>>
          /\ ret.value.months_to_debt_free = Finite(Rat(0, 1))
          /\ ret.value.projected_total_interest = Rat(0, 1)

\* a timeline asked for two accounts with no budget at all
C14_Witness ==
    /\ Len(accounts) = 2
    /\ Returned("payoff_timeline")
    /\ ret.args = <<0, "snowball">>
    /\ ret.value.payoff_plan = <<>>
    /\ ret.value.months_to_debt_free = Finite(Rat(0, 1))

\* the plan entries a strategy call or a timeline call handed back
EntriesReturned ==
    IF Returned("avalanche_strategy") \/ Returned("snowball_strategy")
    THEN {ret.value[k] : k \in DOMAIN ret.value}
    ELSE IF Returned("payoff_timeline") /\ ret.args[2] \in {"avalanche", "snowball"}
    THEN {ret.value.payoff_plan[k] : k \in DOMAIN ret.value.payoff_plan}
    ELSE {}

\* C15: _months_to_payoff(B, P, r) returns infinity exactly when P <= 0, or
\* r > 0 and B * r >= P; for every other input with B >= 0 and r >= 0 it
\* returns a finite value >= 0.  (B, P and r are those of a plan entry; r is
\* the entry's yearly percentage / 1200.)
C15_InfiniteExactlyWhenNeverAmortized ==
    \A p \in EntriesReturned :
        /\ p.months_to_payoff.inf <=> NeverAmortizes(p)
        /\ ~p.months_to_payoff.inf =>
              (p.months_to_payoff.val.num >= 0 /\ p.months_to_payoff.val.den > 0)

\* a payment of 50 on 5000 at 12% a year is exactly the monthly interest:
\* the months are infinite
C15_Witness ==
    /\ Returned("avalanche_strategy")
    /\ Len(accounts) = 1
    /\ accounts[1].current_balance = 5000 /\ accounts[1].interest_rate = 1200
    /\ Len(ret.value) = 1
    /\ ret.value[1].monthly_payment = 50
    /\ ret.value[1].months_to_payoff.inf

\* C16: for a monthly rate of 0, a payment P > 0 and a balance B >= 0,
\* _months_to_payoff(B, P, 0) is B / P exactly (0 months for a zero
\* balance).
C16_ZeroRateIsQuotient ==
    \A p \in EntriesReturned :
        (p.interest_rate.num = 0 /\ p.monthly_payment > 0 /\ p.current_balance >= 0) =>
            /\ ~p.months_to_payoff.inf
            /\ p.months_to_payoff.val.den > 0
            /\ p.months_to_payoff.val.num * p.monthly_payment
                  = p.current_balance * p.months_to_payoff.val.den
            /\ p.current_balance = 0 => p.months_to_payoff.val.num = 0

\* 100 at no interest paid with 200 a month: half a month
C16_Witness ==
    \E p \in EntriesReturned :
        /\ p.interest_rate.num = 0
        /\ p.current_balance = 100
        /\ p.monthly_payment = 200
        /\ p.months_to_payoff = Finite(Rat(1, 2))

\* one account of 5000 at 21% a year, paid with 200 a month
InterestDragScenario ==
    /\ Len(accounts) = 1
    /\ accounts[1].current_balance = 5000
    /\ accounts[1].interest_rate = 2100
    /\ ret.op \in {"avalanche_strategy", "snowball_strategy"}
    /\ ret.args = <<200>>

\* C17: a single account with balance 5000, APR 0.21 and a payment of 200
\* per month has a finite months-to-payoff strictly greater than 25, the
\* zero-rate value 5000 / 200.
C17_InterestDrag ==
    InterestDragScenario =>
        /\ ret.outcome = "return"
        /\ Len(ret.value) = 1
        /\ ret.value[1].monthly_payment = 200
        /\ ~ret.value[1].months_to_payoff.inf
        /\ RatLT(Rat(5000, 200), ret.value[1].months_to_payoff.val)

\* the scenario pays off in 33.16 months
C17_Witness ==
    /\ InterestDragScenario
    /\ Len(ret.value) = 1
    /\ ret.value[1].months_to_payoff = Finite(Rat(3316, 100))

\* the months of one plan entry, from that entry's balance, payment and rate
\* alone
OwnMonths(p) ==
    _months_to_payoff(p.current_balance, p.monthly_payment,
                      Rat(p.interest_rate.num, p.interest_rate.den * 1200))

\* h is the largest months_to_payoff of the plan
IsMaximumOf(h, plan) ==
    /\ \E k \in DOMAIN plan : plan[k].months_to_payoff = h
    /\ \A k \in DOMAIN plan : MonthsLE(plan[k].months_to_payoff, h)

\* C18: for strategy avalanche or snowball, the months_to_debt_free returned
\* by payoff_timeline is the maximum months_to_payoff over the entries of the
\* returned payoff_plan, each computed from that entry's own balance, payment
\* and rate, and the plan has exactly one entry per input account.  (Stated
\* for a positive budget: without one the plan is empty, see C14.)
C18_HorizonIsMaximum ==
    (/\ ret.op = "payoff_timeline"
     /\ ret.args[2] \in {"avalanche", "snowball"}
     /\ ret.args[1] > 0) =>
        /\ ret.outcome = "return"
        /\ Len(ret.value.payoff_plan) = Len(accounts)
        /\ \A k \in DOMAIN ret.value.payoff_plan :
              ret.value.payoff_plan[k].months_to_payoff = OwnMonths(ret.value.payoff_plan[k])
        /\ accounts /= <<>> =>
              IsMaximumOf(ret.value.months_to_debt_free, ret.value.payoff_plan)

\* the most recent date of the whole transaction list
MostRecentDate ==
    CHOOSE d \in {transactions[i].date : i \in DOMAIN transactions} :
        \A i \in DOMAIN transactions : transactions[i].date <= d

\* the recurring charges analyze_gaps looks at: two occurrences are enough
DetectedForGaps == find_recurring(transactions, 2, DefaultAmountTolerance)

\* more than 1.5 mean intervals lie between the charge's last occurrence and
\* the most recent date
Overdue(r) ==
    2 * (MostRecentDate - r.last_date) * r.interval_days.den > 3 * r.interval_days.num

\* g is the gap record of r: possibly cancelled, with amount * (30 / interval)
\* as the monthly impact
FlagsCharge(g, r) ==
    /\ g.merchant = r.merchant
    /\ g.status = "possibly cancelled"
    /\ g.days_since = MostRecentDate - r.last_date
    /\ r.interval_days.num /= 0
    /\ g.avg_monthly_impact.num * r.interval_days.num * r.amount.den
          = 30 * r.interval_days.den * r.amount.num * g.avg_monthly_impact.den

\* C19: analyze_gaps flags a detected recurring charge as "possibly
\* cancelled" if and only if the days between its last occurrence and the
\* most recent transaction date of the whole dataset are strictly more than
\* 1.5 times its mean interval, and reports amount * (30 / interval) as the
\* monthly impact; the charge holding the most recent date is never flagged.
C19_FlaggedIffOverdue ==
    ret.op = "analyze_gaps" =>
        \A k \in DOMAIN DetectedForGaps :
            LET r == DetectedForGaps[k]
            IN  /\ ret.outcome = "return"
                /\ Overdue(r) =>
                      \E i \in DOMAIN ret.value : FlagsCharge(ret.value[i], r)
                /\ ~Overdue(r) =>
                      \A i \in DOMAIN ret.value : ret.value[i].merchant /= r.merchant
                /\ r.last_date = MostRecentDate =>
                      \A i \in DOMAIN ret.value : ret.value[i].merchant /= r.merchant

\* the recurring charges of a call with default parameters
DetectedByDefault == find_recurring(transactions, DefaultMinOccurrences, DefaultAmountTolerance)

\* the names are equal or one holds the other, case ignored, or both hold the
\* same brand keyword
SimilarNames(m1, m2) ==
    \/ Lower(m1) = Lower(m2)
    \/ Contains(Lower(m1), Lower(m2))
    \/ Contains(Lower(m2), Lower(m1))
    \/ \E k \in DOMAIN Keywords :
          Contains(Keywords[k], Lower(m1)) /\ Contains(Keywords[k], Lower(m2))

\* the amounts differ by less than 10% of the larger one
WithinTenPercent(a1, a2) ==
    \/ RatLE(a1, a2) /\ RatLT(RatMul(a2, Rat(9, 10)), a1)
    \/ RatLE(a2, a1) /\ RatLT(RatMul(a1, Rat(9, 10)), a2)

\* the records of the result that pair the merchants of a and b
PairRecords(result, a, b) ==
    {i \in DOMAIN result :
        {result[i].merchant_1, result[i].merchant_2} = {a.merchant, b.merchant}}

\* C20: potential_duplicates_in_recurring reports an unordered pair of
\* distinct detected merchants if and only if their names are similar and
\* their amounts are within 10% of each other (less than 10% apart); each
\* such pair is reported exactly once, with the sum of both monthly-equivalent
\* costs.
C20_DuplicatePairs ==
    ret.op = "potential_duplicates_in_recurring" =>
        \A j, k \in DOMAIN DetectedByDefault :
            j < k =>
                LET a == DetectedByDefault[j]
                    b == DetectedByDefault[k]
                IN  /\ ret.outcome = "return"
                    /\ IF SimilarNames(a.merchant, b.merchant)
                            /\ WithinTenPercent(a.amount, b.amount)
                       THEN \E i \in DOMAIN ret.value :
                               /\ PairRecords(ret.value, a, b) = {i}
                               /\ a.interval_days.num /= 0
                               /\ b.interval_days.num /= 0
                               /\ ret.value[i].total_monthly_duplicate
                                     = RatAdd(MonthlyCost(a), MonthlyCost(b))
                       ELSE PairRecords(ret.value, a, b) = {}

\* the credit cards of the analyzer, as positions of self.accounts
Cards == {i \in DOMAIN accounts : accounts[i].account_type = "credit_card"}

\* balance / credit_limit * 100 of a card against a percentage; a card
\* without a limit has utilization 0
UtilizationBelow(acc, pct) ==
    IF acc.credit_limit = 0 THEN 0 < pct
    ELSE acc.current_balance * 100 < pct * acc.credit_limit

UtilizationAbove(acc, pct) ==
    IF acc.credit_limit = 0 THEN 0 > pct
    ELSE acc.current_balance * 100 > pct * acc.credit_limit

\* the status utilization_impact reported for the card at position i
ReportedStatus(i) ==
    LET k == CHOOSE k \in DOMAIN ret.value.accounts :
                 ret.value.accounts[k].name = accounts[i].name
    IN  ret.value.accounts[k].status

\* C21 (as stated): in utilization_impact every credit card gets status low
\* when its utilization is below 30, moderate when it is from 30 to 50
\* inclusive, and high when it is above 50.
C21_UtilizationBands ==
    Returned("utilization_impact") =>
        \A i \in Cards :
            /\ \E k \in DOMAIN ret.value.accounts :
                   ret.value.accounts[k].name = accounts[i].name
            /\ ReportedStatus(i) =
                   IF UtilizationBelow(accounts[i], 30) THEN "low"
                   ELSE IF UtilizationAbove(accounts[i], 50) THEN "high"
                   ELSE "moderate"

\* C21 (amended): every credit card gets status low when its utilization is
\* at most 30 (a card without a limit counts as 0), moderate when it is above
\* 30 and at most 50, and high when it is above 50.
C21_UtilizationBandsAboveThirty ==
    Returned("utilization_impact") =>
        \A i \in Cards :
            /\ \E k \in DOMAIN ret.value.accounts :
                   ret.value.accounts[k].name = accounts[i].name
            /\ ReportedStatus(i) =
                   IF UtilizationAbove(accounts[i], 50) THEN "high"
                   ELSE IF UtilizationAbove(accounts[i], 30) THEN "moderate"
                   ELSE "low"

\* utilization_impact has returned for two cards, one at exactly 30 (low) and
\* one at exactly 50 (moderate)
C21_Witness ==
    /\ Returned("utilization_impact")
    /\ \E i, j \in Cards :
          /\ accounts[i].credit_limit > 0
          /\ accounts[i].current_balance * 100 = 30 * accounts[i].credit_limit
          /\ ReportedStatus(i) = "low"
          /\ accounts[j].credit_limit > 0
          /\ accounts[j].current_balance * 100 = 50 * accounts[j].credit_limit
          /\ ReportedStatus(j) = "moderate"

RECURSIVE BalanceUpTo(_)
\* the balances of the first n accounts, added up
BalanceUpTo(n) == IF n = 0 THEN 0 ELSE accounts[n].current_balance + BalanceUpTo(n - 1)

RECURSIVE WeightedUpTo(_)
\* balance times rate (in basis points) of the first n accounts, added up
WeightedUpTo(n) ==
    IF n = 0 THEN 0
    ELSE accounts[n].current_balance * accounts[n].interest_rate + WeightedUpTo(n - 1)

\* the rates, as fractions of one, of the accounts that owe something
OwedRates ==
    {Rat(accounts[i].interest_rate, 10000) :
        i \in {j \in DOMAIN accounts : accounts[j].current_balance > 0}}

SameDayCharges(m) == Cardinality(GroupDates(m)) < Cardinality(Group(m))

\* the group of m has enough charges and passes the stdev gate and the
\* amount gate
PassesGates(m, min_occurrences, tolerance) ==
    /\ Cardinality(Group(m)) >= min_occurrences
    /\ ~StdevExceedsHalfMean(GapsOf(m))
    /\ RangeSide(m) <= ToleranceSide(m, tolerance)

\* C24: a merchant group with two or more charges on the same day does not
\* make find_recurring raise; the zero gap counts in the mean and in the
\* standard deviation like any other gap (the mean is the span of the dates
\* over the number of gaps, zero gaps included), and the group is reported or
\* left out by the stdev gate and the amount gate alone.
C24_ZeroGapIsAGap ==
    ret.op = "find_recurring" =>
        /\ ret.outcome = "return"
        /\ \A m \in MerchantsSeen :
               SameDayCharges(m) =>
                   IF PassesGates(m, ret.args[1], ret.args[2])
                   THEN \E k \in DOMAIN ret.value :
                           /\ Entries(ret.value, m) = {k}
                           /\ ret.value[k].interval_days
                                 = Rat(Latest(m) - Earliest(m), Cardinality(Group(m)) - 1)
                           /\ ret.value[k].std_dev_days = StdInterval(GapsOf(m))
                   ELSE Entries(ret.value, m) = {}

\* find_recurring has reported a merchant that was charged twice on one day
\* and on other days as well
C24_Witness ==
    /\ Returned("find_recurring")
    /\ \E m \in MerchantsSeen :
          /\ SameDayCharges(m)
          /\ Cardinality(GroupDates(m)) >= 2
          /\ Entries(ret.value, m) /= {}

\* C25: every record returned by find_recurring, for any min_occurrences
\* (the min_occurrences = 2 call of analyze_gaps included), has
\* interval_days > 0, so that the monthly normalisation
\* amount * (30 / interval_days) of estimated_monthly_recurring, analyze_gaps
\* and potential_duplicates_in_recurring never divides by zero.
C25_PositiveInterval ==
    /\ Returned("find_recurring") =>
           \A k \in DOMAIN ret.value : ret.value[k].interval_days.num > 0
    /\ ret.op \in {"estimated_monthly_recurring", "analyze_gaps",
                    "potential_duplicates_in_recurring"} =>
           ~(ret.outcome = "raise" /\ ret.value = "ZeroDivisionError")

\* every merchant of the gap list g is a merchant of the list of recurring
\* charges
FlaggedAmong(g, recurring) ==
    \A i \in DOMAIN g : \E k \in DOMAIN recurring : recurring[k].merchant = g[i].merchant

\* C26 (as stated): every merchant flagged by analyze_gaps is also a merchant
\* returned by find_recurring() with default parameters on the same detector,
\* so in subscription_health_check possibly_cancelled never exceeds
\* active_subscriptions.
C26_FlaggedAreActive ==
    /\ Returned("analyze_gaps") => FlaggedAmong(ret.value, DetectedByDefault)
    /\ Returned("subscription_health_check") =>
           ret.value.possibly_cancelled <= ret.value.active_subscriptions

\* C26 (amended): every merchant flagged by analyze_gaps is a merchant
\* returned by find_recurring(min_occurrences=2) on the same detector, so in
\* subscription_health_check possibly_cancelled never exceeds the number of
\* records of find_recurring(min_occurrences=2).
C26_FlaggedAreRecurringFromTwo ==
    /\ Returned("analyze_gaps") => FlaggedAmong(ret.value, DetectedForGaps)
    /\ Returned("subscription_health_check") =>
           ret.value.possibly_cancelled <= Len(DetectedForGaps)

\* subscription_health_check has returned more possibly cancelled
\* subscriptions than active ones: a merchant charged twice is flagged
C26_Witness ==
    /\ Returned("subscription_health_check")
    /\ ret.value.possibly_cancelled > ret.value.active_subscriptions
    /\ ret.value.possibly_cancelled <= Len(DetectedForGaps)

RECURSIVE PaymentsUpTo(_, _)
\* the monthly payments of the first n entries of a plan, added up
PaymentsUpTo(plan, n) ==
    IF n = 0 THEN 0 ELSE plan[n].monthly_payment + PaymentsUpTo(plan, n - 1)

SurplusEntries(plan) ==
    {k \in DOMAIN plan :
        plan[k].monthly_payment > accounts[InputPosition(plan[k])].minimum_payment}

\* C28: whenever at least one account has a positive balance and the budget
\* exceeds the sum of the minimum payments, the surplus of both strategies is
\* assigned to an account with a positive balance, never to an account whose
\* balance is already 0.
C28_SurplusToOwingAccount ==
    ((Returned("avalanche_strategy") \/ Returned("snowball_strategy"))
        /\ (\E i \in DOMAIN accounts : accounts[i].current_balance > 0)
        /\ ret.args[1] > MinimumsUpTo(Len(accounts))) =>
        /\ SurplusEntries(ret.value) /= {}
        /\ \A k \in SurplusEntries(ret.value) : ret.value[k].current_balance > 0

\* a whole number of days that _classify_interval names
NamedDays(N) ==
    \/ 6 <= N /\ N <= 8
    \/ 13 <= N /\ N <= 15
    \/ 27 <= N /\ N <= 31
    \/ 89 <= N /\ N <= 92
    \/ 364 <= N /\ N <= 366

\* C29: when _classify_interval returns the generic label "every N days" for
\* a mean interval, whole or fractional, the rounded day count N of the label
\* never lies in one of the named ranges [6,8], [13,15], [27,31], [89,92],
\* [364,366]: an interval shown as N days is never labelled differently from
\* the whole interval N.
C29_GenericLabelOutsideNamedRanges ==
    Returned("find_recurring") =>
        \A k \in DOMAIN ret.value :
            ret.value[k].interval_type.label = "every N days" =>
                ~NamedDays(ret.value[k].interval_type.N)

\* the record r is built from positive-amount transactions of the detector,
\* all of the merchant it names, in non-decreasing date order
BuiltFromOwnCharges(r) ==
    /\ \A i \in DOMAIN r.transactions :
          /\ r.transactions[i].amount > 0
          /\ r.transactions[i].merchant = r.merchant
          /\ \E j \in DOMAIN transactions : transactions[j] = r.transactions[i]
    /\ \A i, j \in DOMAIN r.transactions :
          i < j => r.transactions[i].date <= r.transactions[j].date

\* C30: every record returned by find_recurring(min_occurrences,
\* amount_tolerance) is built only from positive-amount transactions of one
\* merchant and has count >= max(min_occurrences, 2),
\* amount_min <= amount <= amount_max and first_date <= last_date; its
\* transactions are in non-decreasing date order; no merchant appears in more
\* than one record.
C30_RecordInvariants ==
    Returned("find_recurring") =>
        \A k \in DOMAIN ret.value :
            LET r == ret.value[k]
            IN  /\ BuiltFromOwnCharges(r)
                /\ r.count >= ret.args[1]
                /\ r.count >= 2
                /\ RatLE(Rat(r.amount_min, 1), r.amount)
                /\ RatLE(r.amount, Rat(r.amount_max, 1))
                /\ r.first_date <= r.last_date
                /\ Entries(ret.value, r.merchant) = {k}

\* find_recurring(min_occurrences=1) has returned a record of two charges of
\* different amounts on different days
C30_Witness ==
    /\ Returned("find_recurring")
    /\ ret.args[1] = 1
    /\ \E k \in DOMAIN ret.value :
          /\ ret.value[k].count = 2
          /\ ret.value[k].amount_min < ret.value[k].amount_max
          /\ ret.value[k].first_date < ret.value[k].last_date


====
